---- MODULE Spec2Model ----
(***************************************************************************)
(* The equiv_struct pass of passes/equiv/equiv_struct.cc as a state        *)
(* machine: the module graph (cells, wires, connections), the fixpoint     *)
(* driver of EquivStructPass::execute and the steps of one                 *)
(* EquivStructWorker iteration (purge, fingerprint construction, forward   *)
(* and backward merge phases, merge_cell_pair).                            *)
(*                                                                         *)
(* IdStrings are strings: "\\u1" is the public name \u1, "$auto$3" an      *)
(* automatically generated one.  A SigBit is a string: "0" and "1" are the *)
(* constants, every other string is a (one bit wide) wire.  A SigSpec is a *)
(* sequence of SigBits.  A port name is a record field (A, B, Y).          *)
(* Iteration orders of hashlib pools and dicts are not fixed by the        *)
(* source; wherever the result depends on one, every order is a choice.    *)
(***************************************************************************)
EXTENDS Integers, Sequences, FiniteSets, TLC

VARIABLES cells, wires, connections, autoidx,      \* the RTLIL module
          mode_fwd, mode_icells,                   \* options of the pass
          pc, run, merge_count, sigmap,            \* driver and worker
          merge_cache, fwd_merge_cache, bwd_merge_cache,
          phase, queue, gold_cell, gate_cells,
          run_start, iter_start, last_iter, last_merge, iters,
          merged_into                              \* removed cell -> cell_a

vars == <<cells, wires, connections, autoidx, mode_fwd, mode_icells, pc, run,
          merge_count, sigmap, merge_cache, fwd_merge_cache, bwd_merge_cache,
          phase, queue, gold_cell, gate_cells, run_start, iter_start,
          last_iter, last_merge, iters, merged_into>>

(* ------------------------------ bounds --------------------------------- *)
\* number of cells of the module the pass is started on
MaxCells == 3
\* number of NEW_ID names one execution may draw (two per new $equiv cell)
MaxAutoIdx == 8

(* --------------------------- SigBit, SigMap ---------------------------- *)
\* SigBit::wire == nullptr
IsConst(b) == b \in {"0", "1"}

\* a SigMap is the function from the bits of its database to their roots
EmptyMap == <<>>

\* SigMap::operator(): the root of the bit's class, the bit itself if unknown
Find(m, b) == IF b \in DOMAIN m THEN m[b] ELSE b

\* mfp::lookup: enter the bits as classes of their own
Lookup(m, S) == [b \in DOMAIN m \cup S |-> IF b \in DOMAIN m THEN m[b] ELSE b]

\* mfp::ipromote: make b the root of its class
Promote(m, b) == [c \in DOMAIN m |-> IF m[c] = m[b] THEN b ELSE m[c]]

\* SigMap::add(from, to) for one bit: merge the class of from into the class
\* of to (two constants are never merged); a constant becomes the root
AddBit(m, f, t) ==
    LET m1 == Lookup(m, {f, t})
        m2 == [c \in DOMAIN m1 |-> IF m1[c] = m1[f] THEN m1[t] ELSE m1[c]]
        m3 == IF IsConst(f) THEN Promote(m2, f) ELSE m2
    IN  IF IsConst(f) /\ IsConst(t) THEN m1
        ELSE IF IsConst(t) THEN Promote(m3, t) ELSE m3

\* SigMap::add over a sequence of <<from, to>> bit pairs, in order
RECURSIVE AddSeq(_, _)
AddSeq(m, pairs) ==
    IF pairs = <<>> THEN m
    ELSE AddSeq(AddBit(m, pairs[1][1], pairs[1][2]), Tail(pairs))

\* SigMap(module): one add per connection of the module
SigMapOf(conns) == AddSeq(EmptyMap, conns)

\* SigMap::operator() on a SigSpec
Apply(m, sig) == [i \in 1..Len(sig) |-> Find(m, sig[i])]

(* ------------------------------ cells ---------------------------------- *)
\* the modules of the design: module->design->module(type) != nullptr
design == {"\\sub"}

\* Cell::input / Cell::output: the direction of a port is fixed by the type;
\* the types used here have inputs A, B and output Y
cell_output(type, pn) == pn = "Y"
cell_input(type, pn) == pn \in {"A", "B"}

\* Cell::parameters is the set of its <<name, value>> pairs
NoParams == {}

Cell(t, p, a, b, y) ==
    [type |-> t, parameters |-> p, connections |-> [A |-> a, B |-> b, Y |-> y],
     equiv_merged |-> {}]

\* NEW_ID: the name made from the counter value k
NewId(k) == "$auto$" \o ToString(k)

\* log_id(): the name without the backslash of a public name
log_id(n) == IF Head(n) = "\\" THEN Tail(n) ELSE n

\* the cells a module may initially hold
CellPool ==
    ("\\u1_gold" :> Cell("\\sub", NoParams, <<"x">>, <<"y">>, <<"o1">>)) @@
    ("\\u2"      :> Cell("\\sub", NoParams, <<"x">>, <<"y">>, <<"o2">>)) @@
    ("\\u3"      :> Cell("\\sub", NoParams, <<"y">>, <<"x">>, <<"o3">>)) @@
    ("\\v1"      :> Cell("\\sub", NoParams, <<"x">>, <<"y">>, <<"o1", "o7">>)) @@
    ("\\v2"      :> Cell("\\sub", NoParams, <<"y">>, <<"x">>, <<"o1", "o7">>)) @@
    ("\\p1"      :> Cell("$and", NoParams, <<"x">>, <<"y">>, <<"o8">>)) @@
    ("\\p2"      :> Cell("$and", NoParams, <<"x">>, <<"y">>, <<"o9">>)) @@
    ("\\e1"      :> Cell("$equiv", NoParams, <<"x">>, <<"y">>, <<"q1">>)) @@
    ("\\e2"      :> Cell("$equiv", NoParams, <<"o1">>, <<"o3">>, <<"q2">>)) @@
    ("\\e3"      :> Cell("$equiv", NoParams, <<"y">>, <<"q4">>, <<"q3">>)) @@
    ("\\e4"      :> Cell("$equiv", NoParams, <<"x">>, <<"x">>, <<"q4">>)) @@
    ("\\e5"      :> Cell("$equiv", NoParams, <<"0">>, <<"x">>, <<"q5">>))

\* the connections a module may initially hold
ConnPool == { <<>>, << <<"q4", "x">> >>, << <<"y", "x">> >> }

\* lines 266-278: the options the pass may be called with
ArgPool == { {}, {"-fwd"}, {"-icells"} }

BitsOf(c) == UNION { {c.connections[pn][i] : i \in 1..Len(c.connections[pn])}
                     : pn \in DOMAIN c.connections }

WiresOf(cs, conns) ==
    { b \in UNION {BitsOf(cs[n]) : n \in DOMAIN cs}
             \cup UNION { {conns[i][1], conns[i][2]} : i \in 1..Len(conns) }
      : ~IsConst(b) }

NoIter == [kind |-> "none", merge_count |-> 0]
NoMerge == [kind |-> "none"]

Snapshot == [cells |-> cells, wires |-> wires, connections |-> connections]

Init ==
    /\ \E S \in SUBSET DOMAIN CellPool :
          /\ Cardinality(S) \in 1..MaxCells
          /\ cells = [n \in S |-> CellPool[n]]
    /\ connections \in ConnPool
    /\ wires = WiresOf(cells, connections)
    /\ autoidx = 0
    /\ \E args \in ArgPool :
          /\ mode_fwd = ("-fwd" \in args)
          /\ mode_icells = ("-icells" \in args)
    /\ pc = "execute"
    /\ run = 1
    /\ merge_count = 0
    /\ sigmap = EmptyMap
    /\ merge_cache = <<>>
    /\ fwd_merge_cache = {}
    /\ bwd_merge_cache = {}
    /\ phase = 0
    /\ queue = {}
    /\ gold_cell = ""
    /\ gate_cells = {}
    /\ run_start = [cells |-> cells, wires |-> wires, connections |-> connections]
    /\ iter_start = run_start
    /\ last_iter = NoIter
    /\ merged_into = <<>>
    /\ last_merge = NoMerge
    /\ iters = 0

(* --------------------- EquivStructWorker, lines 117-152 ---------------- *)
\* a set as a sequence, in some fixed order
RECURSIVE SeqOf(_)
SeqOf(S) ==
    IF S = {} THEN <<>>
    ELSE LET x == CHOOSE x \in S : TRUE IN <<x>> \o SeqOf(S \ {x})

EquivCells(cs) == {n \in DOMAIN cs : cs[n].type = "$equiv"}

\* getPort(pn).as_bit() through the plain alias map
PortBit(cs, sm, n, pn) == Find(sm, cs[n].connections[pn][1])

\* lines 126-133: equiv_bits is SigMap(module) plus add(sig_b, sig_a) for every
\* $equiv cell (the order of the adds decides only which bit is the root)
EquivBits(cs, conns) ==
    LET sm == SigMapOf(conns)
        es == SeqOf(EquivCells(cs))
    IN  AddSeq(sm, [i \in 1..Len(es) |->
                      <<PortBit(cs, sm, es[i], "B"), PortBit(cs, sm, es[i], "A")>>])

\* lines 131-132: the canonical operands of all $equiv cells
EquivInputs(cs, sm) ==
    UNION { {PortBit(cs, sm, n, "A"), PortBit(cs, sm, n, "B")} : n \in EquivCells(cs) }

\* every cell taken, whatever the option says
IsCandidateAny(c, icells) == TRUE

\* lines 127-137: the cells that take part in the iteration
IsCandidate(c, icells) ==
    c.type = "$equiv" \/ icells \/ c.type \in design

Candidates(cs, icells) == {n \in DOMAIN cs : IsCandidate(cs[n], icells)}

\* line 144: the condition under which a $equiv cell is purged
IsRedundant(cs, sm, n) ==
    /\ PortBit(cs, sm, n, "A") = PortBit(cs, sm, n, "B")
    /\ PortBit(cs, sm, n, "Y") \in EquivInputs(cs, sm)

\* lines 139-149
Purgeable(cs, sm) == {n \in EquivCells(cs) : IsRedundant(cs, sm, n)}

(* --------------------- merge keys, lines 35-54, 154-195 ---------------- *)
\* keys compared as hash() mixes them, without the port sizes
MergeKeyNoSizes(type, parameters, port_sizes, conns) ==
    [type |-> type, parameters |-> parameters, port_sizes |-> {},
     connections |-> conns]

\* merge_key_t; operator== compares all four members
MergeKey(type, parameters, port_sizes, conns) ==
    [type |-> type, parameters |-> parameters, port_sizes |-> port_sizes,
     connections |-> conns]

\* lines 166-168: the sorted vector of <<port, width>> pairs, as their set
PortSizes(c) == {<<pn, Len(c.connections[pn])>> : pn \in DOMAIN c.connections}

\* the forward fingerprint without the port names
FwdConnectionsNoPort(c, eb) ==
    UNION { {<<"", i - 1, Find(eb, c.connections[pn][i])>> : i \in 1..Len(c.connections[pn])}
            : pn \in {q \in DOMAIN c.connections : cell_input(c.type, q)} }

\* lines 174-176, 189-190: the forward fingerprint; bit indices start at 0
FwdConnections(c, eb) ==
    UNION { {<<pn, i - 1, Find(eb, c.connections[pn][i])>> : i \in 1..Len(c.connections[pn])}
            : pn \in {q \in DOMAIN c.connections : cell_input(c.type, q)} }

FwdKey(c, eb) == MergeKey(c.type, c.parameters, PortSizes(c), FwdConnections(c, eb))

\* lines 178-186: one backward fingerprint per output bit
BwdKeys(c, eb) ==
    UNION { { MergeKey(c.type, c.parameters, PortSizes(c),
                       {<<pn, i - 1, Find(eb, c.connections[pn][i])>>})
              : i \in 1..Len(c.connections[pn]) }
            : pn \in {q \in DOMAIN c.connections : cell_output(c.type, q)} }

KeysOf(c, eb) == {FwdKey(c, eb)} \cup BwdKeys(c, eb)

\* lines 185, 194: merge_cache, from every key to the names entered under it
MergeCache(cs, cand, eb) ==
    [k \in UNION {KeysOf(cs[n], eb) : n \in cand} |->
        {n \in cand : k \in KeysOf(cs[n], eb)}]

\* lines 192-193: the forward keys found in merge_cache when entered. No port
\* is both input and output here, so a key is a forward key or a backward
\* key and never both, and these are the keys entered by two cells
FwdMergeCache(cs, cand, eb) ==
    {k \in {FwdKey(cs[n], eb) : n \in cand} :
        Cardinality({n \in cand : k \in KeysOf(cs[n], eb)}) >= 2}

\* lines 183-184
BwdMergeCache(cs, cand, eb) ==
    {k \in UNION {BwdKeys(cs[n], eb) : n \in cand} :
        Cardinality({n \in cand : k \in KeysOf(cs[n], eb)}) >= 2}

(* ------------------------ merge_cell_pair, lines 59-115 ---------------- *)
\* every sequence that holds each element of P once
RECURSIVE Orders(_)
Orders(P) ==
    IF P = {} THEN {<<>>}
    ELSE UNION { {<<p>> \o s : s \in Orders(P \ {p})} : p \in P }

\* line 67: the orders in which the ports of a cell may be visited
PortOrders(c) == Orders(DOMAIN c.connections)

\* line 72: log_assert(GetSize(bits_a) == GetSize(bits_b)) for every port of a
WidthsAgree(ca, cb) ==
    \A pn \in DOMAIN ca.connections :
        /\ pn \in DOMAIN cb.connections
        /\ Len(ca.connections[pn]) = Len(cb.connections[pn])

\* the comparison made on the port signals as they are, without sigmap
RECURSIVE DifferingInputsRaw(_, _, _, _)
DifferingInputsRaw(ca, cb, sm, ord) ==
    IF ord = <<>> THEN <<>>
    ELSE LET pn == Head(ord)
             pairs == [i \in 1..Len(ca.connections[pn]) |->
                          <<ca.connections[pn][i], cb.connections[pn][i]>>]
         IN  (IF cell_output(ca.type, pn) THEN <<>>
              ELSE SelectSeq(pairs, LAMBDA pr : pr[1] # pr[2]))
             \o DifferingInputsRaw(ca, cb, sm, Tail(ord))

\* lines 67-82: inputs_a and inputs_b, as the sequence of the <<bit_a, bit_b>>
\* of all input bits in which the cells differ under sigmap
RECURSIVE DifferingInputs(_, _, _, _)
DifferingInputs(ca, cb, sm, ord) ==
    IF ord = <<>> THEN <<>>
    ELSE LET pn == Head(ord)
             bits_a == Apply(sm, ca.connections[pn])
             bits_b == Apply(sm, cb.connections[pn])
             pairs == [i \in 1..Len(bits_a) |-> <<bits_a[i], bits_b[i]>>]
         IN  (IF cell_output(ca.type, pn) THEN <<>>
              ELSE SelectSeq(pairs, LAMBDA pr : pr[1] # pr[2]))
             \o DifferingInputs(ca, cb, sm, Tail(ord))

\* line 86: the wire of the k-th new $equiv cell, and line 89: its cell name
NewWire(idx, k) == NewId(idx + 2 * k - 1)
NewCell(idx, k) == NewId(idx + 2 * k)

\* lines 90-91: merged_map after all adds
MergedMap(diff, idx) ==
    AddSeq(EmptyMap,
           [j \in 1..2 * Len(diff) |->
               <<diff[(j + 1) \div 2][IF j % 2 = 1 THEN 1 ELSE 2], NewWire(idx, (j + 1) \div 2)>>])

\* the port left as it is
RewiredPortNot(sig, sm, mm) == Apply(sm, sig)

\* line 103: the new signal of an input port of cell_a
RewiredPort(sig, sm, mm) == Apply(mm, Apply(sm, sig))

\* lines 105-109: the connections added for the output ports
RECURSIVE OutputConnections(_, _, _)
OutputConnections(ca, cb, ord) ==
    IF ord = <<>> THEN <<>>
    ELSE LET pn == Head(ord)
         IN  (IF cell_output(ca.type, pn)
              THEN [i \in 1..Len(ca.connections[pn]) |->
                       <<cb.connections[pn][i], ca.connections[pn][i]>>]
              ELSE <<>>)
             \o OutputConnections(ca, cb, Tail(ord))

\* the attribute set to the names that come from cell_b, not added to
MergedAttrSet(ca, cb, name_b) == cb.equiv_merged \cup {log_id(name_b)}

\* lines 111-113: the equiv_merged attribute of cell_a after the merge
MergedAttr(ca, cb, name_b) == ca.equiv_merged \cup cb.equiv_merged \cup {log_id(name_b)}

\* the cells of the module after merge_cell_pair(a, b)
MergedCells(cs, sm, a, b, ord, idx) ==
    LET diff == DifferingInputs(cs[a], cs[b], sm, ord)
        mm == MergedMap(diff, idx)
        new == {NewCell(idx, k) : k \in 1..Len(diff)}
        K(n) == CHOOSE k \in 1..Len(diff) : NewCell(idx, k) = n
    IN  [n \in ((DOMAIN cs) \ {b}) \cup new |->
            IF n \in new
            THEN Cell("$equiv", NoParams, <<diff[K(n)][1]>>, <<diff[K(n)][2]>>,
                      <<NewWire(idx, K(n))>>)
            ELSE IF n = a
            THEN [cs[a] EXCEPT
                    !.connections = [pn \in DOMAIN cs[a].connections |->
                        IF cell_output(cs[a].type, pn) THEN cs[a].connections[pn]
                        ELSE RewiredPort(cs[a].connections[pn], sm, mm)],
                    !.equiv_merged = MergedAttr(cs[a], cs[b], b)]
            ELSE cs[n]]

(* ------------------------------ actions -------------------------------- *)
\* the loop left one iteration early
BreakEarly(mc) == mc <= 1

\* line 284: the driver leaves the loop
Break(mc) == mc = 0

Worker == <<sigmap, merge_cache, fwd_merge_cache, bwd_merge_cache, phase, queue,
            gold_cell, gate_cells>>

\* the worker returns to the driver (lines 152, 227, 231 and 283-286)
Return(kind, mc, before) ==
    /\ merge_count' = mc
    /\ pc' = IF Break(mc) THEN "done" ELSE "execute"
    /\ last_iter' = [kind |-> kind, merge_count |-> mc, before |-> before]
    /\ iters' = IF mc > 0 THEN iters + 1 ELSE iters

\* the purge loop without its merge_count++
PurgeCountNone(P) == 0

\* line 147: merge_count after the purge loop has removed the cells P
PurgeCount(P) == Cardinality(P)

\* lines 117-152: a new worker that purges redundant $equiv cells and returns
WorkerPurge ==
    /\ pc = "execute"
    /\ UNCHANGED merged_into
    /\ LET sm == SigMapOf(connections)
           P == Purgeable(cells, sm)
       IN  /\ P # {}
           /\ cells' = [n \in (DOMAIN cells) \ P |-> cells[n]]
           /\ sigmap' = sm
           /\ iter_start' = Snapshot
           /\ phase' = 0
           /\ Return("purge", PurgeCount(P), Snapshot)
    /\ merge_cache' = <<>> /\ fwd_merge_cache' = {} /\ bwd_merge_cache' = {}
    /\ queue' = {} /\ gold_cell' = "" /\ gate_cells' = {}
    /\ last_merge' = NoMerge
    /\ UNCHANGED <<wires, connections, autoidx, mode_fwd, mode_icells, run, run_start>>

\* lines 117-195: a new worker that finds nothing to purge and builds the keys
WorkerKeys ==
    /\ pc = "execute"
    /\ UNCHANGED merged_into
    /\ LET sm == SigMapOf(connections)
           eb == EquivBits(cells, connections)
           cand == Candidates(cells, mode_icells)
       IN  /\ Purgeable(cells, sm) = {}
           /\ sigmap' = sm
           /\ merge_cache' = MergeCache(cells, cand, eb)
           /\ fwd_merge_cache' = FwdMergeCache(cells, cand, eb)
           /\ bwd_merge_cache' = BwdMergeCache(cells, cand, eb)
           /\ queue' = FwdMergeCache(cells, cand, eb)
    /\ merge_count' = 0
    /\ phase' = 0
    /\ pc' = "phase"
    /\ gold_cell' = "" /\ gate_cells' = {}
    /\ iter_start' = Snapshot
    /\ last_merge' = NoMerge
    /\ UNCHANGED <<cells, wires, connections, autoidx, mode_fwd, mode_icells, run,
                   last_iter, iters, run_start>>

\* line 210: the name ends in "_gold"
HasGoldSuffix(n) == Len(n) > 5 /\ SubSeq(n, Len(n) - 4, Len(n)) = "_gold"

\* the first live member visited, whatever its name
GoldChoicesFirst(live) == live

\* lines 203-214: the cells that the loop may leave in gold_cell: the first
\* live member visited, or the last visited one whose name ends in "_gold"
GoldChoices(live) ==
    IF \E n \in live : HasGoldSuffix(n) THEN {n \in live : HasGoldSuffix(n)} ELSE live

\* every name of the group taken for a cell of the module
LiveMembersAll(cs, names) == names

\* lines 206-208: the names of the group that module->cell() still resolves
LiveMembers(cs, names) == {n \in names : n \in DOMAIN cs}

\* lines 201-217: the next key of the queue; its group is validated against
\* the module and skipped when fewer than two members are left
NextKey ==
    /\ pc = "phase"
    /\ UNCHANGED merged_into
    /\ \E key \in queue :
          LET live == LiveMembers(cells, merge_cache[key])
          IN  /\ queue' = queue \ {key}
              /\ IF Cardinality(live) < 2
                 THEN UNCHANGED <<pc, gold_cell, gate_cells>>
                 ELSE \E gold \in GoldChoices(live) :
                         /\ gold_cell' = gold
                         /\ gate_cells' = live \ {gold}
                         /\ pc' = "group"
    /\ UNCHANGED <<cells, wires, connections, autoidx, mode_fwd, mode_icells, run,
                   merge_count, sigmap, merge_cache, fwd_merge_cache, bwd_merge_cache,
                   phase, iter_start, last_iter, last_merge, iters, run_start>>

\* lines 219-223 and 59-115: merge_cell_pair(gold_cell, gate_cell) for the
\* next cell of the group; a failing log_assert (line 72) aborts the pass
MergePair ==
    /\ pc = "group"
    /\ \E gate \in gate_cells : \E ord \in PortOrders(cells[gold_cell]) :
          IF ~WidthsAgree(cells[gold_cell], cells[gate])
          THEN /\ pc' = "abort"
               /\ merge_count' = merge_count + 1
               /\ UNCHANGED <<cells, wires, connections, autoidx, gate_cells, last_merge,
                              merged_into>>
          ELSE LET diff == DifferingInputs(cells[gold_cell], cells[gate], sigmap, ord)
                   n == Len(diff)
               IN  /\ autoidx + 2 * n <= MaxAutoIdx
                   /\ cells' = MergedCells(cells, sigmap, gold_cell, gate, ord, autoidx)
                   /\ wires' = wires \cup {NewWire(autoidx, k) : k \in 1..n}
                   /\ connections' = connections \o
                                  OutputConnections(cells[gold_cell], cells[gate], ord)
                   /\ autoidx' = autoidx + 2 * n
                   /\ merge_count' = merge_count + 1
                   /\ gate_cells' = gate_cells \ {gate}
                   /\ pc' = IF gate_cells \ {gate} = {} THEN "phase" ELSE "group"
                   /\ last_merge' = [kind |-> "merge", a |-> gold_cell, b |-> gate,
                                     phase |-> phase, diff |-> diff, idx |-> autoidx,
                                     before |-> Snapshot]
                   /\ merged_into' = merged_into @@ (gate :> gold_cell)
    /\ UNCHANGED <<mode_fwd, mode_icells, run, sigmap, merge_cache, fwd_merge_cache,
                   bwd_merge_cache, phase, queue, gold_cell, run_start, iter_start,
                   last_iter, iters>>

\* the test made after the last phase only
PhaseEndsLast(ph, mc) == ph = 1 /\ mc > 0

\* line 226: the test made after the queue of each phase
PhaseEnds(ph, mc) == mc > 0

\* lines 226-227: a phase that merged ends the iteration
PhaseReturn ==
    /\ pc = "phase" /\ queue = {} /\ PhaseEnds(phase, merge_count)
    /\ UNCHANGED merged_into
    /\ Return(IF phase = 0 THEN "fwd" ELSE "bwd", merge_count, iter_start)
    /\ UNCHANGED <<cells, wires, connections, autoidx, mode_fwd, mode_icells, run,
                   iter_start, last_merge, run_start>>
    /\ UNCHANGED Worker

\* lines 197-199: the forward phase merged nothing, the backward phase begins
NextPhase ==
    /\ pc = "phase" /\ queue = {} /\ ~PhaseEnds(phase, merge_count) /\ phase = 0
    /\ UNCHANGED merged_into
    /\ phase' = 1
    /\ queue' = bwd_merge_cache
    /\ UNCHANGED <<cells, wires, connections, autoidx, mode_fwd, mode_icells, pc, run,
                   merge_count, sigmap, merge_cache, fwd_merge_cache, bwd_merge_cache,
                   gold_cell, gate_cells, iter_start, last_iter, last_merge, iters,
                   run_start>>

\* line 230: nothing to merge; the worker reports merge_count 0
NothingToMerge ==
    /\ pc = "phase" /\ queue = {} /\ ~PhaseEnds(phase, merge_count) /\ phase = 1
    /\ UNCHANGED merged_into
    /\ Return("nothing", merge_count, iter_start)
    /\ UNCHANGED <<cells, wires, connections, autoidx, mode_fwd, mode_icells, run,
                   iter_start, last_merge, run_start>>
    /\ UNCHANGED Worker

\* lines 259-287: the pass is executed once more on the module it left, with
\* the same options
Rerun ==
    /\ pc = "done" /\ run = 1
    /\ UNCHANGED merged_into
    /\ run' = 2
    /\ pc' = "execute"
    /\ iters' = 0
    /\ run_start' = Snapshot
    /\ last_iter' = NoIter
    /\ last_merge' = NoMerge
    /\ UNCHANGED <<cells, wires, connections, autoidx, mode_fwd, mode_icells,
                   merge_count, iter_start>>
    /\ UNCHANGED Worker

Next ==
    \/ WorkerPurge
    \/ WorkerKeys
    \/ NextKey
    \/ MergePair
    \/ PhaseReturn
    \/ NextPhase
    \/ NothingToMerge
    \/ Rerun

Spec == Init /\ [][Next]_vars

(* ------------------------------ claims --------------------------------- *)
\* the state is the one a worker iteration has just returned in
IterEnded == last_iter.kind # "none" /\ pc \in {"execute", "done"}

NumCells(cs) == Cardinality(DOMAIN cs)

\* C1: the driver loop terminates because every iteration that reports
\* merge_count > 0 ends with strictly fewer live cells than it started with
\* or has removed a $equiv cell.
C1_EveryIterationShrinks ==
    (IterEnded /\ last_iter.merge_count > 0) =>
        \/ NumCells(cells) < NumCells(last_iter.before.cells)
        \/ \E n \in EquivCells(last_iter.before.cells) : n \notin DOMAIN cells

\* C2: the pass run again on the module a finished run has left, with the
\* same options: its first worker iteration purges nothing, merges nothing
\* and leaves the module as it was.
C2_Idempotent ==
    run = 2 =>
        /\ merge_count = 0
        /\ pc # "group"
        /\ Snapshot = run_start
        /\ last_iter.kind \in {"none", "nothing"}

\* a second run has finished on a module that the first run changed
C2_Witness ==
    /\ run = 2 /\ pc = "done" /\ last_iter.kind = "nothing"
    /\ autoidx > 0

\* C3: with -fwd no merge is made from a backward (single output bit)
\* fingerprint.
C3_FwdOnly ==
    mode_fwd => (last_merge.kind = "merge" => last_merge.phase = 0)

InputPorts(c) == {pn \in DOMAIN c.connections : ~cell_output(c.type, pn)}
OutputPorts(c) == {pn \in DOMAIN c.connections : cell_output(c.type, pn)}

\* equal type, parameter mapping and port-name-to-width mapping
SameShape(c1, c2) ==
    /\ c1.type = c2.type
    /\ c1.parameters = c2.parameters
    /\ PortSizes(c1) = PortSizes(c2)

\* the input positions <<port, index>> at which two cells differ under sm
DiffPositions(c1, c2, sm) ==
    {pos \in UNION { {<<pn, i>> : i \in 1..Len(c1.connections[pn])} : pn \in InputPorts(c1) } :
        Find(sm, c1.connections[pos[1]][pos[2]]) # Find(sm, c2.connections[pos[1]][pos[2]])}

\* two cells of equal shape whose input bits are pairwise the same under sm
ExactDup(cs, sm, r, t) ==
    /\ r # t
    /\ SameShape(cs[r], cs[t])
    /\ DiffPositions(cs[r], cs[t], sm) = {}

Merged == last_merge.kind = "merge"

\* the last merge neither made a cell or a wire nor touched a third cell, and
\* tied every output bit of the removed cell to that of the surviving cell
PureDeduplication ==
    LET pre == last_merge.before
        a == last_merge.a
        b == last_merge.b
    IN  /\ last_merge.diff = <<>>
        /\ DOMAIN cells = (DOMAIN pre.cells) \ {b}
        /\ wires = pre.wires
        /\ autoidx = last_merge.idx
        /\ \A n \in (DOMAIN cells) \ {a} : cells[n] = pre.cells[n]
        /\ \A pn \in InputPorts(pre.cells[a]) :
              cells[a].connections[pn] = Apply(sigmap, pre.cells[a].connections[pn])
        /\ \A pn \in OutputPorts(pre.cells[a]) :
              /\ cells[a].connections[pn] = pre.cells[a].connections[pn]
              /\ \A i \in 1..Len(pre.cells[a].connections[pn]) :
                    \E j \in (Len(pre.connections) + 1)..Len(connections) :
                        connections[j] = <<pre.cells[b].connections[pn][i],
                                           pre.cells[a].connections[pn][i]>>

\* the pairs of candidate cells that are exact duplicates when the run starts
DupPairsAtStart ==
    LET cs0 == run_start.cells
        sm0 == SigMapOf(run_start.connections)
        cand == Candidates(cs0, mode_icells)
    IN  {pr \in cand \X cand : ExactDup(cs0, sm0, pr[1], pr[2])}

\* C4 as claimed: of two candidate cells that are exact duplicates exactly one
\* is left when the driver stops, and the merge that removes the other is a
\* pure deduplication into the one that stays.
C4_ExactlyOneRemains ==
    \A pr \in DupPairsAtStart :
        /\ pc = "done" =>
              Cardinality({pr[1], pr[2]} \cap DOMAIN cells) = 1
        /\ (Merged /\ last_merge.b \in {pr[1], pr[2]}) =>
              (last_merge.a \in {pr[1], pr[2]} /\ PureDeduplication)

\* C4 as amended: of two candidate cells that are exact duplicates at most one
\* is left when the driver stops, and merge_cell_pair applied to two cells
\* whose inputs are the same under the worker's sigmap is a pure
\* deduplication.
C4_Deduplication ==
    /\ \A pr \in DupPairsAtStart :
          pc = "done" => Cardinality({pr[1], pr[2]} \cap DOMAIN cells) <= 1
    /\ (Merged /\ ExactDup(last_merge.before.cells, sigmap, last_merge.a, last_merge.b))
          => PureDeduplication

\* two exact duplicates have just been merged, one into the other
C4_Witness ==
    /\ Merged
    /\ <<last_merge.a, last_merge.b>> \in DupPairsAtStart
    /\ ExactDup(last_merge.before.cells, sigmap, last_merge.a, last_merge.b)
    /\ last_merge.b \notin DOMAIN cells

\* the last merge found exactly one differing input bit
OneBitMismatch ==
    /\ Merged
    /\ Len(last_merge.diff) = 1
    /\ Cardinality(DiffPositions(last_merge.before.cells[last_merge.a],
                                 last_merge.before.cells[last_merge.b], sigmap)) = 1

\* the last merge made exactly the $equiv cell A = a, B = b, Y = a fresh wire
OneNewEquiv ==
    LET pre == last_merge.before
        e == NewCell(last_merge.idx, 1)
        y == NewWire(last_merge.idx, 1)
    IN  /\ DOMAIN cells = ((DOMAIN pre.cells) \ {last_merge.b}) \cup {e}
        /\ e \notin DOMAIN pre.cells
        /\ cells[e].type = "$equiv"
        /\ cells[e].connections =
              [A |-> <<last_merge.diff[1][1]>>, B |-> <<last_merge.diff[1][2]>>, Y |-> <<y>>]
        /\ y \notin pre.wires
        /\ wires = pre.wires \cup {y}

TrivialAndUsedBy(cs, sm, n, others) ==
    /\ n \in EquivCells(cs)
    /\ PortBit(cs, sm, n, "A") = PortBit(cs, sm, n, "B")
    /\ \E m \in others :
          PortBit(cs, sm, n, "Y") \in {PortBit(cs, sm, m, "A"), PortBit(cs, sm, m, "B")}

\* the iteration that has just returned removed exactly the cells in gone and
\* changed nothing else
OnlyRemoved(gone) ==
    LET pre == last_iter.before
    IN  /\ DOMAIN cells = (DOMAIN pre.cells) \ gone
        /\ \A n \in DOMAIN cells : cells[n] = pre.cells[n]
        /\ wires = pre.wires
        /\ connections = pre.connections

\* C6 as claimed: every $equiv cell with A and B the same under sigmap whose
\* canonical Y is an operand of some other $equiv cell is removed by the
\* iteration, and an iteration that purges removes only such cells and makes
\* no other change to the module.
C6_PurgeOnlyUsedByOther ==
    IterEnded =>
        LET pre == last_iter.before
            sm == SigMapOf(pre.connections)
            such == {n \in DOMAIN pre.cells :
                        TrivialAndUsedBy(pre.cells, sm, n, EquivCells(pre.cells) \ {n})}
        IN  /\ \A n \in such : last_iter.kind = "purge" /\ n \notin DOMAIN cells
            /\ last_iter.kind = "purge" => OnlyRemoved(such)

\* the same with the cell's own operands counted, as line 144 counts them
C6_PurgeOnlyUsed ==
    IterEnded =>
        LET pre == last_iter.before
            sm == SigMapOf(pre.connections)
            such == {n \in DOMAIN pre.cells :
                        TrivialAndUsedBy(pre.cells, sm, n, EquivCells(pre.cells))}
        IN  /\ \A n \in such : last_iter.kind = "purge" /\ n \notin DOMAIN cells
            /\ last_iter.kind = "purge" => OnlyRemoved(such)

\* the cells of the run's module that are neither $equiv cells nor instances
\* of a module of the design
Primitives == {n \in DOMAIN run_start.cells :
                  /\ run_start.cells[n].type # "$equiv"
                  /\ run_start.cells[n].type \notin design}

\* C7: without -icells no cell that is neither a $equiv cell nor an instance
\* of a module of the design is passed to merge_cell_pair, rewired or removed.
C7_ScopeRespect ==
    ~mode_icells =>
        \A n \in Primitives :
            /\ n \in DOMAIN cells
            /\ cells[n] = run_start.cells[n]
            /\ pc = "group" => (n # gold_cell /\ n \notin gate_cells)
            /\ Merged => (n # last_merge.a /\ n # last_merge.b)

\* without -icells a run has finished, with merges, on a module that holds
\* two primitive cells of equal fingerprint
C7_Witness ==
    /\ ~mode_icells /\ pc = "done" /\ iters > 0
    /\ \E n, m \in Primitives :
          n # m /\ ExactDup(cells, SigMapOf(connections), n, m)

C9_FewerCellsEachIteration ==
    /\ (IterEnded /\ last_iter.merge_count > 0) =>
          NumCells(cells) < NumCells(last_iter.before.cells)
    /\ iters <= NumCells(run_start.cells)

\* the bound on the number of iterations alone
C9_AtMostFIterations == iters <= NumCells(run_start.cells)

\* two cells of equal shape, inputs A and B one bit wide, whose canonical input
\* signals x and y are distinct and swapped
Permuted(cs, sm, r, t) ==
    /\ r # t
    /\ SameShape(cs[r], cs[t])
    /\ InputPorts(cs[r]) = {"A", "B"}
    /\ Len(cs[r].connections.A) = 1 /\ Len(cs[r].connections.B) = 1
    /\ PortBit(cs, sm, r, "A") = PortBit(cs, sm, t, "B")
    /\ PortBit(cs, sm, r, "B") = PortBit(cs, sm, t, "A")
    /\ PortBit(cs, sm, r, "A") # PortBit(cs, sm, r, "B")

\* C10 as claimed: two cells whose inputs are permuted across the ports are
\* never merged, neither in the forward nor in the backward phase.
C10_PermutedNeverMerged ==
    Merged => ~Permuted(last_merge.before.cells, sigmap, last_merge.a, last_merge.b)

\* C10 as amended: two cells whose inputs x and y are permuted across the
\* ports are merged in the forward phase only if x and y are the same under
\* equiv_bits, and in the backward phase only if the two cells have an output
\* bit that is the same under equiv_bits.
C10_PermutedMergedOnlyIfEquiv ==
    (Merged /\ Permuted(last_merge.before.cells, sigmap, last_merge.a, last_merge.b)) =>
        LET eb == EquivBits(iter_start.cells, iter_start.connections)
            ca == last_merge.before.cells[last_merge.a]
            cb == last_merge.before.cells[last_merge.b]
        IN  /\ last_merge.phase = 0 =>
                  Find(eb, ca.connections.A[1]) = Find(eb, ca.connections.B[1])
            /\ last_merge.phase = 1 =>
                  \E pn \in OutputPorts(ca) : \E i \in 1..Len(ca.connections[pn]) :
                      Find(eb, ca.connections[pn][i]) = Find(eb, cb.connections[pn][i])

\* a permuted pair has been merged in the backward phase
C10_Witness ==
    /\ Merged /\ last_merge.phase = 1
    /\ Permuted(last_merge.before.cells, sigmap, last_merge.a, last_merge.b)
    /\ last_merge.b \notin DOMAIN cells

\* the iteration in progress, or the one that has just returned, found
\* nothing to purge when it started
NothingPurged ==
    Purgeable(iter_start.cells, SigMapOf(iter_start.connections)) = {}

\* C11: all mutations of one iteration come from one phase, and the phases
\* are tried in the order purge, forward, backward.  An iteration that purges
\* builds no key and merges nothing; keys are built only when nothing was
\* purged; every merge of the iteration so far was made in the phase the
\* worker is still in, so that no phase begins after a merge; the backward
\* phase begins only when the forward queue was empty.
C11_PhaseExclusive ==
    /\ (IterEnded /\ last_iter.kind = "purge") =>
          /\ ~Merged
          /\ merge_cache = <<>> /\ fwd_merge_cache = {} /\ bwd_merge_cache = {}
          /\ \A n \in DOMAIN cells :
                n \in DOMAIN last_iter.before.cells /\ cells[n] = last_iter.before.cells[n]
          /\ wires = last_iter.before.wires
          /\ connections = last_iter.before.connections
    /\ pc \in {"phase", "group"} => NothingPurged
    /\ Merged => (last_merge.phase = phase /\ NothingPurged)
    /\ (Merged /\ last_merge.phase = 1) => fwd_merge_cache = {}
    /\ (IterEnded /\ last_iter.kind = "fwd") => (Merged /\ last_merge.phase = 0)
    /\ (IterEnded /\ last_iter.kind = "bwd") => (Merged /\ last_merge.phase = 1)

\* an iteration has returned after backward merges: nothing was purged, the
\* forward queue was empty, and the backward phase made new $equiv cells
C11_Witness ==
    /\ IterEnded /\ last_iter.kind = "bwd" /\ last_iter.merge_count > 0
    /\ Merged /\ last_merge.phase = 1 /\ last_merge.diff # <<>>
    /\ EquivCells(last_iter.before.cells) # {}

\* the cells merge_cell_pair is about to be called on, and was last called on,
\* are two different cells of the module as it is at the call; the names in
\* the groups of merge_cache were cells of the module when the keys were built
LiveReferences ==
    /\ pc = "group" =>
          /\ gold_cell \in DOMAIN cells
          /\ gate_cells # {}
          /\ gate_cells \subseteq DOMAIN cells
          /\ gold_cell \notin gate_cells
    /\ Merged =>
          /\ last_merge.a \in DOMAIN last_merge.before.cells
          /\ last_merge.b \in DOMAIN last_merge.before.cells
          /\ last_merge.a # last_merge.b
    /\ pc \in {"phase", "group"} =>
          \A key \in DOMAIN merge_cache :
              merge_cache[key] \subseteq Candidates(iter_start.cells, mode_icells)

\* a step that takes a key from the queue and goes on to the next key has
\* found fewer than two live cells in the group and changes nothing else
SkippedGroup ==
    (pc = "phase" /\ pc' = "phase" /\ phase' = phase /\ queue' # queue) =>
        /\ \E key \in queue :
              /\ queue' = queue \ {key}
              /\ Cardinality(merge_cache[key] \cap DOMAIN cells) < 2
        /\ UNCHANGED <<cells, wires, connections, autoidx, merge_count, last_merge>>

\* C12: merge_cell_pair is called only on two different cells that exist in
\* the module at the call, in either phase and after earlier merges of the
\* iteration; every name looked up when the keys are built is a live cell; a
\* group with fewer than two live cells left is skipped without any mutation.
C12_NoStaleReference == []LiveReferences /\ [][SkippedGroup]_vars

\* the backward phase has ended with one merge made for two backward keys:
\* the group of the second key had lost a member to the merge of the first
C12_Witness ==
    /\ pc = "phase" /\ phase = 1 /\ queue = {}
    /\ Cardinality(bwd_merge_cache) = 2 /\ merge_count = 1
    /\ Merged /\ last_merge.b \notin DOMAIN cells
    /\ \A key \in bwd_merge_cache : last_merge.b \in merge_cache[key]

\* C13: a $equiv cell is purged only if its A and B are the same signal under
\* sigmap and its canonical Y is an operand of some other $equiv cell of the
\* module; a $equiv cell whose Y is referenced by no other $equiv cell is
\* never purged.
C13_PurgedOnlyIfUsedByOther ==
    (IterEnded /\ last_iter.kind = "purge") =>
        LET pre == last_iter.before
            sm == SigMapOf(pre.connections)
        IN  \A n \in (DOMAIN pre.cells) \ DOMAIN cells :
                TrivialAndUsedBy(pre.cells, sm, n, EquivCells(pre.cells) \ {n})

\* the keys of the current phase that have been taken from the queue
ProcessedKeys == (IF phase = 0 THEN fwd_merge_cache ELSE bwd_merge_cache) \ queue

\* the representative is a live cell apart from the cells to merge into it and
\* carries the "_gold" suffix if one of them does; a merge leaves cell_a and
\* removes cell_b; a processed group has at most one live member left
RepresentativeKept ==
    /\ pc = "group" =>
          /\ gold_cell \in DOMAIN cells /\ gold_cell \notin gate_cells
          /\ (\E n \in gate_cells : HasGoldSuffix(n)) => HasGoldSuffix(gold_cell)
    /\ Merged =>
          /\ last_merge.a \in DOMAIN cells
          /\ last_merge.b \notin DOMAIN cells
          /\ HasGoldSuffix(last_merge.b) => HasGoldSuffix(last_merge.a)
    /\ pc = "phase" =>
          \A key \in ProcessedKeys :
              Cardinality(LiveMembers(cells, merge_cache[key])) <= 1
    /\ (pc = "phase" /\ Merged) =>
          \E key \in ProcessedKeys :
              LiveMembers(cells, merge_cache[key]) = {last_merge.a}

\* every merge of a group is made into the representative of the group, which
\* stays the same until the group is done
MergedIntoRepresentative ==
    (pc = "group" /\ last_merge' # last_merge) =>
        /\ last_merge'.a = gold_cell
        /\ last_merge'.b \in gate_cells
        /\ gate_cells' = gate_cells \ {last_merge'.b}
        /\ pc' = "group" => gold_cell' = gold_cell

\* C14: a processed group of two or more live members gets exactly one of them
\* as representative and every other live member is merged into it; when a
\* live member's name ends in "_gold" so does the representative's, and no
\* cell whose name ends in "_gold" is removed by a merge whose surviving cell's
\* name does not.
C14_RepresentativeSelection == []RepresentativeKept /\ [][MergedIntoRepresentative]_vars

\* a forward group of three members, one of them named "..._gold", has been
\* merged into that one
C14_Witness ==
    /\ pc = "phase" /\ phase = 0 /\ merge_count = 2
    /\ Merged /\ HasGoldSuffix(last_merge.a)
    /\ \E key \in ProcessedKeys :
          /\ Cardinality(merge_cache[key]) = 3
          /\ LiveMembers(cells, merge_cache[key]) = {last_merge.a}

\* the cell that a cell removed by a merge has been merged into, directly or
\* through the merges of its survivors
RECURSIVE Survivor(_)
Survivor(n) == IF n \in DOMAIN merged_into THEN Survivor(merged_into[n]) ELSE n

\* the last merge has added to R's equiv_merged set T's name and T's set, and
\* every name removed by a merge is in the set of its survivor, if that lives
ProvenanceKept ==
    /\ Merged =>
          LET pre == last_merge.before.cells
          IN  cells[last_merge.a].equiv_merged =
                  pre[last_merge.a].equiv_merged \cup {log_id(last_merge.b)}
                      \cup pre[last_merge.b].equiv_merged
    /\ \A t \in DOMAIN merged_into :
          /\ t \notin DOMAIN cells
          /\ Survivor(t) \in DOMAIN cells =>
                log_id(t) \in cells[Survivor(t)].equiv_merged

\* no step takes an entry from the equiv_merged set of a cell that stays
ProvenanceGrows ==
    \A n \in (DOMAIN cells) \cap (DOMAIN cells') :
        cells[n].equiv_merged \subseteq cells'[n].equiv_merged

\* C15: merge_cell_pair(R, T) sets R's equiv_merged to its previous set united
\* with T's name and T's previous set; the name of every cell removed by a
\* merge is in the set of the cell it was merged into, directly or
\* transitively, while that cell exists; no set ever loses an entry.
C15_ProvenanceCumulative == []ProvenanceKept /\ [][ProvenanceGrows]_vars

\* a cell that had itself absorbed a cell has been merged into another one
C15_Witness ==
    /\ Merged
    /\ last_merge.before.cells[last_merge.b].equiv_merged # {}
    /\ \E t \in DOMAIN merged_into :
          merged_into[t] = last_merge.b /\ Survivor(t) = last_merge.a

\* C16: an iteration reports merge_count == 0 if and only if it left the
\* module (cells with their ports and attributes, wires, connections) as it
\* found it; the final iteration of every run changes nothing.
C16_CountIsExact ==
    /\ IterEnded => (last_iter.merge_count = 0 <=> Snapshot = last_iter.before)
    /\ pc \in {"phase", "group"} => (merge_count = 0 <=> Snapshot = iter_start)
    /\ pc = "done" =>
          /\ last_iter.kind = "nothing" /\ last_iter.merge_count = 0
          /\ Snapshot = last_iter.before

\* a run has ended, with an iteration that reported 0, after iterations that
\* purged or merged
C16_Witness ==
    /\ pc = "done" /\ run = 1 /\ iters > 1
    /\ last_iter.merge_count = 0
    /\ Snapshot # run_start

====
